---------------------------- MODULE Spec2Model ----------------------------
(***************************************************************************)
(* Decision criteria under uncertainty (pieersx/deci-uncert).              *)
(*                                                                         *)
(* The repository holds three copies of the criterion engine:              *)
(*   - src/src/utils/decisionCriteria.ts, the module the page              *)
(*     DecisionCalculator.tsx imports ("../utils/decisionCriteria"); no    *)
(*     evaluator of it reads isCost;                                       *)
(*   - src/unnamed/part_001, where only calculateMaximin and               *)
(*     calculateMaximax branch on isCost;                                  *)
(*   - src/unnamed/part_002, where every evaluator but Savage's selection  *)
(*     branches on isCost.                                                 *)
(* All three are modelled, operator by operator.  The operators of the     *)
(* first keep the source's names; those of the others carry the suffixes   *)
(* _p1 and _p2.                                                            *)
(*                                                                         *)
(* JavaScript numbers are modelled as records: a finite number is an exact *)
(* rational in lowest terms, and NaN, Infinity, -Infinity and undefined    *)
(* are values of their own.  The inputs are integers and dyadic alphas, on *)
(* which the IEEE-754 operations of the code are exact, except the         *)
(* division of a row sum by the number of states, which is a monotonic     *)
(* injective rounding of the exact quotient on these inputs.               *)
(*                                                                         *)
(* The text fields of a CriterionResult (description, calculations) are    *)
(* display strings derived from the numbers; they are not modelled.        *)
(***************************************************************************)
EXTENDS Integers, Sequences, FiniteSets, TLC

VARIABLES matrix, alpha, ret, calls, page

vars == <<matrix, alpha, ret, calls, page>>

---------------------------------------------------------------------------
(* Bounds of the model *)

\* the most alternatives (rows) of an input matrix
MaxAlts == 3

\* the most states (columns) of an input matrix
MaxStates == 3

\* the most cells of a well-formed input matrix
MaxCells == 6

\* the most rows, cells of a row, alternatives and states of a malformed matrix
MaxMalformed == 2

\* a matrix of at most this many cells is evaluated again after a first call
MaxRepeatCells == 2

\* the calls of one behaviour on such a matrix
MaxCalls == 3

\* the editor adds alternatives, states and cells up to these
MaxEditorAlts == 3

MaxEditorStates == 3

MaxEditorCells == 6

\* the user's events (editor operations, slider moves, Calculate, Back) in
\* one behaviour of the page
MaxPageEvents == 4

---------------------------------------------------------------------------
(* JavaScript numbers *)

Abs(i) == IF i < 0 THEN -i ELSE i

RECURSIVE GCD(_, _)
GCD(a, b) == IF b = 0 THEN a ELSE GCD(b, a % b)

\* the finite number n/d (d > 0), in lowest terms
Rat(n, d) ==
    IF d = 1 THEN [k |-> "num", n |-> n, d |-> 1]
    ELSE LET g == GCD(Abs(n), d)
         IN  [k |-> "num", n |-> n \div g, d |-> d \div g]

Num(i) == Rat(i, 1)

NaN == [k |-> "NaN", n |-> 0, d |-> 1]

PosInf == [k |-> "Infinity", n |-> 0, d |-> 1]

NegInf == [k |-> "-Infinity", n |-> 0, d |-> 1]

Undefined == [k |-> "undefined", n |-> 0, d |-> 1]

IsNaN(x) == x.k = "NaN" \/ x.k = "undefined"

IsFinite(x) == x.k = "num"

\* -1, 0 or 1: the sign of a number that is not NaN
Sign(x) ==
    CASE x.k = "Infinity" -> 1
      [] x.k = "-Infinity" -> -1
      [] OTHER -> IF x.n > 0 THEN 1 ELSE IF x.n < 0 THEN -1 ELSE 0

\* x < y on numbers that are not NaN
Less(x, y) ==
    IF IsFinite(x) /\ IsFinite(y) THEN x.n * y.d < y.n * x.d
    ELSE CASE x.k = "Infinity" -> FALSE
           [] x.k = "-Infinity" -> y.k # "-Infinity"
           [] OTHER -> y.k = "Infinity"

\* the unary minus
Neg(x) ==
    IF IsFinite(x) THEN [k |-> "num", n |-> -x.n, d |-> x.d]
    ELSE CASE x.k = "Infinity" -> NegInf
           [] x.k = "-Infinity" -> PosInf
           [] OTHER -> NaN

\* the operator +
Add(x, y) ==
    IF IsFinite(x) /\ IsFinite(y) THEN Rat(x.n * y.d + y.n * x.d, x.d * y.d)
    ELSE CASE IsNaN(x) \/ IsNaN(y) -> NaN
           [] IsFinite(x) -> y
           [] IsFinite(y) -> x
           [] OTHER -> IF x.k = y.k THEN x ELSE NaN

\* the operator -
Sub(x, y) == Add(x, Neg(y))

\* the operator *
Mul(x, y) ==
    IF IsFinite(x) /\ IsFinite(y) THEN Rat(x.n * y.n, x.d * y.d)
    ELSE CASE IsNaN(x) \/ IsNaN(y) -> NaN
           [] Sign(x) = 0 \/ Sign(y) = 0 -> NaN
           [] OTHER -> IF Sign(x) = Sign(y) THEN PosInf ELSE NegInf

\* the operator / with a divisor that is a length (an integer >= 0)
Div(x, len) ==
    IF IsFinite(x) /\ len > 0 THEN Rat(x.n, x.d * len)
    ELSE CASE IsNaN(x) -> NaN
           [] len = 0 -> IF Sign(x) = 0 THEN NaN
                         ELSE IF Sign(x) > 0 THEN PosInf ELSE NegInf
           [] OTHER -> x

\* the operator ===
StrictEquals(x, y) == x.k # "NaN" /\ y.k # "NaN" /\ x = y

---------------------------------------------------------------------------
(* Arrays and the library calls the engine makes.  Arrays are sequences;   *)
(* the code's indices are 0-based and kept so in optimalIndex.             *)

\* the array of the elements f[1], ..., f[n], each computed once
Array(f) == f \o <<>>

\* arr[i] with a 0-based index; undefined outside the array
At(arr, i) == IF i >= 0 /\ i < Len(arr) THEN arr[i + 1] ELSE Undefined

\* the largest of acc and args[i..], none of them NaN
RECURSIVE MaxFrom(_, _, _)
MaxFrom(args, i, acc) ==
    IF i > Len(args) THEN acc
    ELSE MaxFrom(args, i + 1, IF Less(acc, args[i]) THEN args[i] ELSE acc)

\* the smallest of acc and args[i..], none of them NaN
RECURSIVE MinFrom(_, _, _)
MinFrom(args, i, acc) ==
    IF i > Len(args) THEN acc
    ELSE MinFrom(args, i + 1, IF Less(args[i], acc) THEN args[i] ELSE acc)

\* Math.max(...args): -Infinity of no argument, NaN if an argument is NaN
MathMax(args) ==
    IF \E i \in 1..Len(args) : IsNaN(args[i]) THEN NaN ELSE MaxFrom(args, 1, NegInf)

\* Math.min(...args): Infinity of no argument, NaN if an argument is NaN
MathMin(args) ==
    IF \E i \in 1..Len(args) : IsNaN(args[i]) THEN NaN ELSE MinFrom(args, 1, PosInf)

RECURSIVE IndexFrom(_, _, _)
IndexFrom(arr, x, i) ==
    IF i > Len(arr) THEN -1
    ELSE IF StrictEquals(arr[i], x) THEN i - 1
    ELSE IndexFrom(arr, x, i + 1)

RECURSIVE LastIndexFrom(_, _, _)
LastIndexFrom(arr, x, i) ==
    IF i < 1 THEN -1
    ELSE IF StrictEquals(arr[i], x) THEN i - 1
    ELSE LastIndexFrom(arr, x, i - 1)

\* a variant of indexOf: arr.lastIndexOf(x), the last index whose element === x
indexOf_last(arr, x) == LastIndexFrom(arr, x, Len(arr))

\* a variant of indexOf: the position counted from 1
indexOf_oneBased(arr, x) == IndexFrom(arr, x, 1) + 1

\* arr.indexOf(x): the first 0-based index whose element === x, or -1
indexOf(arr, x) == IndexFrom(arr, x, 1)

RECURSIVE ReduceSum(_, _, _)
ReduceSum(row, i, sum) ==
    IF i > Len(row) THEN sum ELSE ReduceSum(row, i + 1, Add(sum, row[i]))

\* row.reduce((sum, value) => sum + value, 0)
rowSum(row) == ReduceSum(row, 1, Num(0))

\* values.map(row => row[j]), j 0-based
column(values, j) == Array([i \in 1..Len(values) |-> At(values[i], j)])

\* x.toFixed(2) of a finite x: the decimal text, kept as its count of
\* hundredths (the nearest, the larger in magnitude of two equally near)
toFixed2(x) ==
    LET a == Abs(x.n)
        h == (200 * a + x.d) \div (2 * x.d)
    IN  IF x.n < 0 THEN -h ELSE h

---------------------------------------------------------------------------
(* src/src/utils/decisionCriteria.ts                                       *)
(* A PayoffMatrix is [alternatives, states, values, isCost]; a             *)
(* CriterionResult is [name, values, optimalIndex, optimalValue].          *)

\* a variant of calculateMaximin: the score of a row is its sum
calculateMaximin_rowSum(m) ==
    LET values == m.values
        minValues == Array([i \in 1..Len(values) |-> rowSum(values[i])])
        optimalIndex == indexOf(minValues, MathMax(minValues))
    IN  [name |-> <<"Pesimista (Wald)">>, values |-> minValues,
         optimalIndex |-> optimalIndex, optimalValue |-> At(minValues, optimalIndex)]

calculateMaximin(m) ==
    LET values == m.values
        minValues == Array([i \in 1..Len(values) |-> MathMin(values[i])])
        optimalIndex == indexOf(minValues, MathMax(minValues))
    IN  [name |-> <<"Pesimista (Wald)">>,
         values |-> minValues,
         optimalIndex |-> optimalIndex,
         optimalValue |-> At(minValues, optimalIndex)]

calculateMaximax(m) ==
    LET values == m.values
        maxValues == Array([i \in 1..Len(values) |-> MathMax(values[i])])
        optimalIndex == indexOf(maxValues, MathMax(maxValues))
    IN  [name |-> <<"Optimista">>,
         values |-> maxValues,
         optimalIndex |-> optimalIndex,
         optimalValue |-> At(maxValues, optimalIndex)]

calculateHurwicz(m, a) ==
    LET values == m.values
        hurwiczValues ==
            Array([i \in 1..Len(values) |->
                LET min == MathMin(values[i])
                    max == MathMax(values[i])
                IN  Add(Mul(a, max), Mul(Sub(Num(1), a), min))])
        optimalIndex == indexOf(hurwiczValues, MathMax(hurwiczValues))
    IN  [name |-> <<"Hurwicz (alpha=", toFixed2(a), ")">>,
         values |-> hurwiczValues,
         optimalIndex |-> optimalIndex,
         optimalValue |-> At(hurwiczValues, optimalIndex)]

\* a variant of calculateLaplace: the row sum is divided by the number of
\* alternatives
calculateLaplace_byAlternatives(m) ==
    LET values == m.values
        numStates == Len(m.alternatives)
        laplaceValues == Array([i \in 1..Len(values) |-> Div(rowSum(values[i]), numStates)])
        optimalIndex == indexOf(laplaceValues, MathMax(laplaceValues))
    IN  [name |-> <<"Laplace">>,
         values |-> laplaceValues,
         optimalIndex |-> optimalIndex,
         optimalValue |-> At(laplaceValues, optimalIndex)]

calculateLaplace(m) ==
    LET values == m.values
        numStates == Len(m.states)
        laplaceValues == Array([i \in 1..Len(values) |-> Div(rowSum(values[i]), numStates)])
        optimalIndex == indexOf(laplaceValues, MathMax(laplaceValues))
    IN  [name |-> <<"Laplace">>,
         values |-> laplaceValues,
         optimalIndex |-> optimalIndex,
         optimalValue |-> At(laplaceValues, optimalIndex)]

calculateRegretMatrix(m) ==
    LET values == m.values
        numStates == Len(m.states)
        maxPerState == Array([j \in 1..numStates |-> MathMax(column(values, j - 1))])
    IN  Array([i \in 1..Len(values) |->
            Array([j \in 1..numStates |-> Sub(maxPerState[j], At(values[i], j - 1))])])

\* a variant of calculateMinimaxRegret: the selection of the other rules,
\* indexOf(Math.max(...))
calculateMinimaxRegret_pickMax(m) ==
    LET regretMatrix == calculateRegretMatrix(m)
        maxRegrets == Array([i \in 1..Len(regretMatrix) |-> MathMax(regretMatrix[i])])
        optimalIndex == indexOf(maxRegrets, MathMax(maxRegrets))
    IN  [name |-> <<"Savage">>,
         values |-> maxRegrets,
         optimalIndex |-> optimalIndex,
         optimalValue |-> At(maxRegrets, optimalIndex)]

calculateMinimaxRegret(m) ==
    LET regretMatrix == calculateRegretMatrix(m)
        maxRegrets == Array([i \in 1..Len(regretMatrix) |-> MathMax(regretMatrix[i])])
        optimalIndex == indexOf(maxRegrets, MathMin(maxRegrets))
    IN  [name |-> <<"Savage">>,
         values |-> maxRegrets,
         optimalIndex |-> optimalIndex,
         optimalValue |-> At(maxRegrets, optimalIndex)]

\* a variant of calculateAllCriteria: calculateMaximin before calculateMaximax
calculateAllCriteria_reordered(m, a) ==
    [matrix |-> m,
     results |-> <<calculateLaplace(m),
                   calculateMaximin(m),
                   calculateMaximax(m),
                   calculateHurwicz(m, a),
                   calculateMinimaxRegret(m)>>,
     regretMatrix |-> calculateRegretMatrix(m)]

\* a variant of calculateAllCriteria: the regrets are written into the grid
\* of the matrix passed in
calculateAllCriteria_inPlace(m, a) ==
    [matrix |-> [m EXCEPT !.values = calculateRegretMatrix(m)],
     results |-> <<calculateLaplace(m),
                   calculateMaximax(m),
                   calculateMaximin(m),
                   calculateHurwicz(m, a),
                   calculateMinimaxRegret(m)>>,
     regretMatrix |-> calculateRegretMatrix(m)]

\* a variant of calculateAllCriteria: alpha is kept from the call before,
\* the default 0.5 on the first call
calculateAllCriteria_remembering(m, a) ==
    [matrix |-> m,
     results |-> <<calculateLaplace(m),
                   calculateMaximax(m),
                   calculateMaximin(m),
                   calculateHurwicz(m, IF Len(calls) = 0 THEN a ELSE Rat(1, 2)),
                   calculateMinimaxRegret(m)>>,
     regretMatrix |-> calculateRegretMatrix(m)]

\* a DecisionResults: [matrix, results, regretMatrix]
\* calculateAllCriteria handing back the payoff grid in the regretMatrix field
calculateAllCriteria_payoffAsRegret(m, a) ==
    [matrix |-> m,
     results |-> <<calculateLaplace(m),
                   calculateMaximax(m),
                   calculateMaximin(m),
                   calculateHurwicz(m, a),
                   calculateMinimaxRegret(m)>>,
     regretMatrix |-> m.values]

calculateAllCriteria(m, a) ==
    [matrix |-> m,
     results |-> <<calculateLaplace(m),
                   calculateMaximax(m),
                   calculateMaximin(m),
                   calculateHurwicz(m, a),
                   calculateMinimaxRegret(m)>>,
     regretMatrix |-> calculateRegretMatrix(m)]

---------------------------------------------------------------------------
(* src/unnamed/part_001: the copy where the best-case and worst-case rules *)
(* branch on isCost                                                        *)

calculateMaximin_p1(m) ==
    LET values == m.values
        isCost == m.isCost
        relevantValues ==
            IF isCost
            THEN Array([i \in 1..Len(values) |-> MathMax(values[i])])
            ELSE Array([i \in 1..Len(values) |-> MathMin(values[i])])
        optimalIndex ==
            IF isCost
            THEN indexOf(relevantValues, MathMin(relevantValues))
            ELSE indexOf(relevantValues, MathMax(relevantValues))
    IN  [name |-> <<"Pesimista ", IF isCost THEN "(Maximin)" ELSE "(Minimax)">>,
         values |-> relevantValues,
         optimalIndex |-> optimalIndex,
         optimalValue |-> At(relevantValues, optimalIndex)]

calculateMaximax_p1(m) ==
    LET values == m.values
        isCost == m.isCost
        relevantValues ==
            IF isCost
            THEN Array([i \in 1..Len(values) |-> MathMin(values[i])])
            ELSE Array([i \in 1..Len(values) |-> MathMax(values[i])])
        optimalIndex ==
            IF isCost
            THEN indexOf(relevantValues, MathMin(relevantValues))
            ELSE indexOf(relevantValues, MathMax(relevantValues))
    IN  [name |-> <<"Optimista ", IF isCost THEN "(Minimix)" ELSE "(Maximax)">>,
         values |-> relevantValues,
         optimalIndex |-> optimalIndex,
         optimalValue |-> At(relevantValues, optimalIndex)]

calculateHurwicz_p1(m, a) ==
    LET values == m.values
        hurwiczValues ==
            Array([i \in 1..Len(values) |->
                LET min == MathMin(values[i])
                    max == MathMax(values[i])
                IN  Add(Mul(a, max), Mul(Sub(Num(1), a), min))])
        optimalIndex == indexOf(hurwiczValues, MathMax(hurwiczValues))
    IN  [name |-> <<"Hurwicz (alpha=", toFixed2(a), ")">>,
         values |-> hurwiczValues,
         optimalIndex |-> optimalIndex,
         optimalValue |-> At(hurwiczValues, optimalIndex)]

calculateLaplace_p1(m) ==
    LET values == m.values
        numStates == Len(m.states)
        laplaceValues == Array([i \in 1..Len(values) |-> Div(rowSum(values[i]), numStates)])
        optimalIndex == indexOf(laplaceValues, MathMax(laplaceValues))
    IN  [name |-> <<"Laplace">>,
         values |-> laplaceValues,
         optimalIndex |-> optimalIndex,
         optimalValue |-> At(laplaceValues, optimalIndex)]

calculateRegretMatrix_p1(m) ==
    LET values == m.values
        numStates == Len(m.states)
        optimalPerState == Array([j \in 1..numStates |-> MathMax(column(values, j - 1))])
    IN  Array([i \in 1..Len(values) |->
            Array([j \in 1..numStates |-> Sub(optimalPerState[j], At(values[i], j - 1))])])

calculateMinimaxRegret_p1(m) ==
    LET regretMatrix == calculateRegretMatrix_p1(m)
        maxRegrets == Array([i \in 1..Len(regretMatrix) |-> MathMax(regretMatrix[i])])
        optimalIndex == indexOf(maxRegrets, MathMin(maxRegrets))
    IN  [name |-> <<"Savage">>,
         values |-> maxRegrets,
         optimalIndex |-> optimalIndex,
         optimalValue |-> At(maxRegrets, optimalIndex)]

calculateAllCriteria_p1(m, a) ==
    [matrix |-> m,
     results |-> <<calculateLaplace_p1(m),
                   calculateMaximax_p1(m),
                   calculateMaximin_p1(m),
                   calculateHurwicz_p1(m, a),
                   calculateMinimaxRegret_p1(m)>>,
     regretMatrix |-> calculateRegretMatrix_p1(m)]

---------------------------------------------------------------------------
(* src/unnamed/part_002: the copy where every rule but Savage's selection  *)
(* branches on isCost                                                      *)

calculateMaximin_p2(m) ==
    LET values == m.values
        isCost == m.isCost
        relevantValues ==
            IF isCost
            THEN Array([i \in 1..Len(values) |-> MathMax(values[i])])
            ELSE Array([i \in 1..Len(values) |-> MathMin(values[i])])
        optimalIndex ==
            IF isCost
            THEN indexOf(relevantValues, MathMin(relevantValues))
            ELSE indexOf(relevantValues, MathMax(relevantValues))
    IN  [name |-> <<"Pesimista (Maximin)">>,
         values |-> relevantValues,
         optimalIndex |-> optimalIndex,
         optimalValue |-> At(relevantValues, optimalIndex)]

calculateMaximax_p2(m) ==
    LET values == m.values
        isCost == m.isCost
        relevantValues ==
            IF isCost
            THEN Array([i \in 1..Len(values) |-> MathMin(values[i])])
            ELSE Array([i \in 1..Len(values) |-> MathMax(values[i])])
        optimalIndex ==
            IF isCost
            THEN indexOf(relevantValues, MathMin(relevantValues))
            ELSE indexOf(relevantValues, MathMax(relevantValues))
    IN  [name |-> <<"Optimista (Maximax)">>,
         values |-> relevantValues,
         optimalIndex |-> optimalIndex,
         optimalValue |-> At(relevantValues, optimalIndex)]

calculateHurwicz_p2(m, a) ==
    LET values == m.values
        isCost == m.isCost
        hurwiczValues ==
            Array([i \in 1..Len(values) |->
                LET min == MathMin(values[i])
                    max == MathMax(values[i])
                IN  IF isCost
                    THEN Add(Mul(a, min), Mul(Sub(Num(1), a), max))
                    ELSE Add(Mul(a, max), Mul(Sub(Num(1), a), min))])
        optimalIndex ==
            IF isCost
            THEN indexOf(hurwiczValues, MathMin(hurwiczValues))
            ELSE indexOf(hurwiczValues, MathMax(hurwiczValues))
    IN  [name |-> <<"Hurwicz (alpha=", toFixed2(a), ")">>,
         values |-> hurwiczValues,
         optimalIndex |-> optimalIndex,
         optimalValue |-> At(hurwiczValues, optimalIndex)]

calculateLaplace_p2(m) ==
    LET values == m.values
        isCost == m.isCost
        numStates == Len(m.states)
        laplaceValues == Array([i \in 1..Len(values) |-> Div(rowSum(values[i]), numStates)])
        optimalIndex ==
            IF isCost
            THEN indexOf(laplaceValues, MathMin(laplaceValues))
            ELSE indexOf(laplaceValues, MathMax(laplaceValues))
    IN  [name |-> <<"Laplace">>,
         values |-> laplaceValues,
         optimalIndex |-> optimalIndex,
         optimalValue |-> At(laplaceValues, optimalIndex)]

calculateRegretMatrix_p2(m) ==
    LET values == m.values
        isCost == m.isCost
        numStates == Len(m.states)
        optimalPerState ==
            Array([j \in 1..numStates |->
                IF isCost
                THEN MathMin(column(values, j - 1))
                ELSE MathMax(column(values, j - 1))])
    IN  Array([i \in 1..Len(values) |->
            Array([j \in 1..numStates |->
                IF isCost
                THEN Sub(At(values[i], j - 1), optimalPerState[j])
                ELSE Sub(optimalPerState[j], At(values[i], j - 1))])])

calculateMinimaxRegret_p2(m) ==
    LET regretMatrix == calculateRegretMatrix_p2(m)
        maxRegrets == Array([i \in 1..Len(regretMatrix) |-> MathMax(regretMatrix[i])])
        optimalIndex == indexOf(maxRegrets, MathMin(maxRegrets))
    IN  [name |-> <<"Savage">>,
         values |-> maxRegrets,
         optimalIndex |-> optimalIndex,
         optimalValue |-> At(maxRegrets, optimalIndex)]

calculateAllCriteria_p2(m, a) ==
    [matrix |-> m,
     results |-> <<calculateLaplace_p2(m),
                   calculateMaximax_p2(m),
                   calculateMaximin_p2(m),
                   calculateHurwicz_p2(m, a),
                   calculateMinimaxRegret_p2(m)>>,
     regretMatrix |-> calculateRegretMatrix_p2(m)]

---------------------------------------------------------------------------
(* The inputs of a call *)

\* the cells of the well-formed matrices
PayoffValues == {Num(-1), Num(0), Num(2)}

\* the cells of the malformed matrices
MalformedCellValues == {Num(2)}

\* alpha as the slider yields it (0, 0.25, 0.5, 1) and outside [0, 1]
Alphas == {Rat(0, 1), Rat(1, 4), Rat(1, 2), Rat(1, 1), Rat(-1, 4), Rat(5, 4)}

Alternatives(n) == [i \in 1..n |-> [id |-> <<"a", i>>, name |-> <<"Alternativa", i>>]]

States(n) == [j \in 1..n |-> [id |-> <<"s", j>>, name |-> <<"Estado", j>>]]

\* the PayoffMatrix invariants: non-empty, one row per alternative, one
\* cell per state in every row
ValidShape(m) ==
    /\ Len(m.alternatives) > 0
    /\ Len(m.states) > 0
    /\ Len(m.values) = Len(m.alternatives)
    /\ \A i \in 1..Len(m.values) : Len(m.values[i]) = Len(m.states)

ValidAlpha(a) == ~Less(a, Num(0)) /\ ~Less(Num(1), a)

Matrix(nA, nS, v, c) ==
    [alternatives |-> Alternatives(nA), states |-> States(nS), values |-> v, isCost |-> c]

Rows(cells) == UNION { [1..n -> cells] : n \in 0..MaxMalformed }

Grids(cells) == UNION { [1..r -> Rows(cells)] : r \in 0..MaxMalformed }

\* every matrix of the bounded shapes that breaks a PayoffMatrix invariant:
\* no alternative, no state, a row count that is not the number of
\* alternatives, a row whose length is not the number of states
MalformedMatrices ==
    { m \in { Matrix(nA, nS, v, c) :
                nA \in 0..MaxMalformed, nS \in 0..MaxMalformed,
                v \in Grids(MalformedCellValues), c \in BOOLEAN } :
        ~ValidShape(m) }

\* exampleMatrices.example1, which has no isCost field (read as false)
example1 ==
    Matrix(3, 4, << <<Num(3), Num(8), Num(2), Num(10)>>,
                    <<Num(5), Num(4), Num(6), Num(3)>>,
                    <<Num(9), Num(6), Num(4), Num(5)>> >>, FALSE)

\* the grid of example1 in either orientation
ScenarioMatrix(c) == [example1 EXCEPT !.isCost = c]

---------------------------------------------------------------------------
(* The state: the arguments of a call (matrix is the object passed in, as  *)
(* the call leaves it), what the last call returned and, in calls, what    *)
(* every call of the behaviour returned, in order.  A behaviour is a       *)
(* sequence of calls of calculateAllCriteria, of any of the copies, on the *)
(* same arguments.  The bundle returned holds the matrix object itself     *)
(* (return {matrix, ...}), so the object after the call is the one in the  *)
(* bundle.  No evaluator has a throw statement and no operation of theirs  *)
(* raises on an array of arrays of numbers, so every call ends by          *)
(* returning.                                                              *)

NoCall == [module |-> "none", outcome |-> "none", value |-> <<>>]

\* the state of DecisionCalculator at its first render (matrix and results
\* null, showResults false), with the count of the user's events; it stays
\* so where no page takes part.  A field that may be null holds <<>> for
\* null and <<x>> for the value x.
NoPage == [matrix |-> <<>>, results |-> <<>>, showResults |-> FALSE, events |-> 0]

\* alpha: number = 0.5, the default of the parameter
DefaultAlpha == Rat(1, 2)

\* a well-formed matrix of every bounded shape and content with every alpha,
\* or a malformed matrix with the default alpha, or the grid of example1 in
\* either orientation with the default alpha
Init ==
    /\ \/ /\ \E nA \in 1..MaxAlts, nS \in 1..MaxStates :
                /\ nA * nS <= MaxCells
                /\ \E v \in [1..nA -> [1..nS -> PayoffValues]], c \in BOOLEAN :
                        matrix = Matrix(nA, nS, v, c)
          /\ alpha \in Alphas
       \/ /\ matrix \in MalformedMatrices
          /\ alpha = DefaultAlpha
       \/ /\ \E c \in BOOLEAN : matrix = ScenarioMatrix(c)
          /\ alpha = DefaultAlpha
    /\ ret = NoCall
    /\ calls = <<>>
    /\ page = NoPage

\* a first call, or one more call on a well-formed matrix of at most
\* MaxRepeatCells cells
CanCall ==
    \/ Len(calls) = 0
    \/ /\ Len(calls) < MaxCalls
       /\ Len(matrix.alternatives) * Len(matrix.states) <= MaxRepeatCells
       /\ ValidShape(matrix)

\* calculateAllCriteria(matrix, alpha) of src/src/utils/decisionCriteria.ts
CallCalculateAllCriteria ==
    /\ CanCall
    /\ ret' = [module |-> "utils/decisionCriteria", outcome |-> "returned",
               value |-> calculateAllCriteria(matrix, alpha)]
    /\ matrix' = ret'.value.matrix
    /\ calls' = Append(calls, [module |-> ret'.module, value |-> ret'.value])
    /\ UNCHANGED <<alpha, page>>

\* calculateAllCriteria(matrix, alpha) of src/unnamed/part_001
CallCalculateAllCriteria_p1 ==
    /\ CanCall
    /\ ret' = [module |-> "part_001", outcome |-> "returned",
               value |-> calculateAllCriteria_p1(matrix, alpha)]
    /\ matrix' = ret'.value.matrix
    /\ calls' = Append(calls, [module |-> ret'.module, value |-> ret'.value])
    /\ UNCHANGED <<alpha, page>>

\* calculateAllCriteria(matrix, alpha) of src/unnamed/part_002
CallCalculateAllCriteria_p2 ==
    /\ CanCall
    /\ ret' = [module |-> "part_002", outcome |-> "returned",
               value |-> calculateAllCriteria_p2(matrix, alpha)]
    /\ matrix' = ret'.value.matrix
    /\ calls' = Append(calls, [module |-> ret'.module, value |-> ret'.value])
    /\ UNCHANGED <<alpha, page>>

Next ==
    \/ CallCalculateAllCriteria
    \/ CallCalculateAllCriteria_p1
    \/ CallCalculateAllCriteria_p2

Spec == Init /\ [][Next]_vars

---------------------------------------------------------------------------
(* The MatrixInput editor: matrix is the component's state, an operation   *)
(* is one handler run from the rendered table followed by the re-render.   *)
(* Row and column indices are those of the rendered rows and columns.      *)

\* the text typed into a name field
EditorNames == {<<"x">>}

\* the number typed into a cell: Number(e.target.value)
EditorValues == {Num(0), Num(2)}

\* useState's initial value when no initialMatrix is given
DefaultMatrix ==
    Matrix(2, 2, << <<Num(0), Num(0)>>, <<Num(0), Num(0)>> >>, FALSE)

\* arr after arr.splice(index, 1), index within the array
splice(arr, index) == SubSeq(arr, 1, index) \o SubSeq(arr, index + 2, Len(arr))

EditorInit ==
    /\ matrix = DefaultMatrix
    /\ alpha = DefaultAlpha
    /\ ret = NoCall
    /\ calls = <<>>
    /\ page = NoPage

addAlternative ==
    /\ Len(matrix.alternatives) < MaxEditorAlts
    /\ (Len(matrix.alternatives) + 1) * Len(matrix.states) <= MaxEditorCells
    /\ LET n == Len(matrix.alternatives) + 1
           newAlt == [id |-> <<"a", n>>, name |-> <<"Alternativa", n>>]
           newValues == Append(matrix.values,
                               Array([j \in 1..Len(matrix.states) |-> Num(0)]))
       IN  matrix' = [matrix EXCEPT !.alternatives = Append(@, newAlt),
                                    !.values = newValues]
    /\ UNCHANGED <<alpha, ret, calls>>

addState ==
    /\ Len(matrix.states) < MaxEditorStates
    /\ Len(matrix.alternatives) * (Len(matrix.states) + 1) <= MaxEditorCells
    /\ LET n == Len(matrix.states) + 1
           newState == [id |-> <<"s", n>>, name |-> <<"Estado", n>>]
           newValues == Array([i \in 1..Len(matrix.values) |->
                                  Append(matrix.values[i], Num(0))])
       IN  matrix' = [matrix EXCEPT !.states = Append(@, newState),
                                    !.values = newValues]
    /\ UNCHANGED <<alpha, ret, calls>>

\* removeAlternative without the early return at two alternatives
removeAlternative_unguarded(index) ==
    /\ matrix' = [matrix EXCEPT !.alternatives = splice(@, index),
                                !.values = splice(@, index)]
    /\ UNCHANGED <<alpha, ret, calls>>

removeAlternative(index) ==
    /\ IF Len(matrix.alternatives) <= 2
       THEN matrix' = matrix
       ELSE matrix' = [matrix EXCEPT !.alternatives = splice(@, index),
                                     !.values = splice(@, index)]
    /\ UNCHANGED <<alpha, ret, calls>>

\* a variant of removeState: the column stays in the rows of values
removeState_statesOnly(index) ==
    /\ IF Len(matrix.states) <= 2
       THEN matrix' = matrix
       ELSE matrix' = [matrix EXCEPT !.states = splice(@, index)]
    /\ UNCHANGED <<alpha, ret, calls>>

removeState(index) ==
    /\ IF Len(matrix.states) <= 2
       THEN matrix' = matrix
       ELSE matrix' = [matrix EXCEPT
                          !.states = splice(@, index),
                          !.values = Array([i \in 1..Len(matrix.values) |->
                                               splice(matrix.values[i], index)])]
    /\ UNCHANGED <<alpha, ret, calls>>

updateAlternativeName(index, name) ==
    /\ matrix' = [matrix EXCEPT !.alternatives[index + 1].name = name]
    /\ UNCHANGED <<alpha, ret, calls>>

updateStateName(index, name) ==
    /\ matrix' = [matrix EXCEPT !.states[index + 1].name = name]
    /\ UNCHANGED <<alpha, ret, calls>>

updateValue(altIndex, stateIndex, value) ==
    /\ matrix' = [matrix EXCEPT !.values[altIndex + 1][stateIndex + 1] = value]
    /\ UNCHANGED <<alpha, ret, calls>>

toggleCostProfit ==
    /\ matrix' = [matrix EXCEPT !.isCost = ~matrix.isCost]
    /\ UNCHANGED <<alpha, ret, calls>>

\* the editor on its own: no page takes part in its operations
EditorNext ==
    \/ addAlternative /\ UNCHANGED page
    \/ addState /\ UNCHANGED page
    \/ \E index \in 0..(Len(matrix.alternatives) - 1) :
            removeAlternative(index) /\ UNCHANGED page
    \/ \E index \in 0..(Len(matrix.states) - 1) :
            removeState(index) /\ UNCHANGED page
    \/ \E index \in 0..(Len(matrix.alternatives) - 1), name \in EditorNames :
            updateAlternativeName(index, name) /\ UNCHANGED page
    \/ \E index \in 0..(Len(matrix.states) - 1), name \in EditorNames :
            updateStateName(index, name) /\ UNCHANGED page
    \/ \E altIndex \in 0..(Len(matrix.alternatives) - 1),
          stateIndex \in 0..(Len(matrix.states) - 1), value \in EditorValues :
            updateValue(altIndex, stateIndex, value) /\ UNCHANGED page
    \/ toggleCostProfit /\ UNCHANGED page

EditorSpec == EditorInit /\ [][EditorNext]_vars

---------------------------------------------------------------------------
(* The page DecisionCalculator: page holds its state (matrix, results,     *)
(* showResults), alpha is the state the slider sets, matrix is the state   *)
(* of the MatrixInput it renders while no results are shown.  The effect   *)
(* of MatrixInput that reports its matrix to the page is a step of its     *)
(* own, which may come before or after the user's next event.  The other   *)
(* effect of MatrixInput, setMatrix(initialMatrix), runs when the page's   *)
(* matrix changed, which is right after the first effect gave the page the *)
(* editor's own matrix: it sets the state it already has.                  *)

\* parseFloat(e.target.value) of the range input: min 0, max 1
SliderValues == {Rat(0, 1), Rat(1, 2), Rat(1, 1)}

PageInit ==
    /\ matrix = DefaultMatrix
    /\ alpha = DefaultAlpha
    /\ ret = NoCall
    /\ calls = <<>>
    /\ page = NoPage

\* showResults && results ? <ResultsDisplay/> : <MatrixInput/>
EditorShown == ~(page.showResults /\ page.results # <<>>)

\* one more event of the user fits the behaviour
CanAct == page.events < MaxPageEvents

\* the page counts an event of the user on the editor
Counted == page' = [page EXCEPT !.events = @ + 1]

\* useEffect(() => onMatrixChange(matrix)) with handleMatrixChange
onMatrixChange ==
    /\ EditorShown
    /\ page.matrix # <<matrix>>
    /\ page' = [page EXCEPT !.matrix = <<matrix>>]
    /\ UNCHANGED <<matrix, alpha, ret, calls>>

\* a variant of handleCalculate: the default matrix is evaluated
handleCalculate_default ==
    /\ EditorShown /\ CanAct
    /\ IF page.matrix # <<>>
       THEN page' = [page EXCEPT
                        !.results = <<calculateAllCriteria(DefaultMatrix, alpha)>>,
                        !.showResults = TRUE,
                        !.events = @ + 1]
       ELSE page' = [page EXCEPT !.events = @ + 1]
    /\ UNCHANGED <<matrix, alpha, ret, calls>>

\* the Calculate button of MatrixInput
handleCalculate ==
    /\ EditorShown /\ CanAct
    /\ IF page.matrix # <<>>
       THEN page' = [page EXCEPT
                        !.results = <<calculateAllCriteria(page.matrix[1], alpha)>>,
                        !.showResults = TRUE,
                        !.events = @ + 1]
       ELSE page' = [page EXCEPT !.events = @ + 1]
    /\ UNCHANGED <<matrix, alpha, ret, calls>>

\* the slider's onChange, rendered whether results are shown or not
setAlpha(a) ==
    /\ CanAct
    /\ a # alpha
    /\ alpha' = a
    /\ page' = [page EXCEPT !.events = @ + 1]
    /\ UNCHANGED <<matrix, ret, calls>>

\* onBack of ResultsDisplay: setShowResults(false); MatrixInput is mounted
\* again, its state starting from initialMatrix, the page's matrix
onBack ==
    /\ ~EditorShown /\ CanAct
    /\ page' = [page EXCEPT !.showResults = FALSE, !.events = @ + 1]
    /\ matrix' = page.matrix[1]
    /\ UNCHANGED <<alpha, ret, calls>>

PageNext ==
    \/ EditorShown /\ CanAct /\ addAlternative /\ Counted
    \/ EditorShown /\ CanAct /\ addState /\ Counted
    \/ \E index \in 0..(Len(matrix.alternatives) - 1) :
            EditorShown /\ CanAct /\ removeAlternative(index) /\ Counted
    \/ \E index \in 0..(Len(matrix.states) - 1) :
            EditorShown /\ CanAct /\ removeState(index) /\ Counted
    \/ \E index \in 0..(Len(matrix.alternatives) - 1), name \in EditorNames :
            EditorShown /\ CanAct /\ updateAlternativeName(index, name) /\ Counted
    \/ \E index \in 0..(Len(matrix.states) - 1), name \in EditorNames :
            EditorShown /\ CanAct /\ updateStateName(index, name) /\ Counted
    \/ \E altIndex \in 0..(Len(matrix.alternatives) - 1),
          stateIndex \in 0..(Len(matrix.states) - 1), value \in EditorValues :
            EditorShown /\ CanAct /\ updateValue(altIndex, stateIndex, value) /\ Counted
    \/ EditorShown /\ CanAct /\ toggleCostProfit /\ Counted
    \/ onMatrixChange
    \/ handleCalculate
    \/ \E a \in SliderValues : setAlpha(a)
    \/ onBack

PageSpec == PageInit /\ [][PageNext]_vars

---------------------------------------------------------------------------
(* What the claims speak of *)

Returned == ret.module # "none"

nAlts == Len(matrix.alternatives)

nStates == Len(matrix.states)

\* the results of the five rules, in the order of the bundle
Laplace == ret.value.results[1]

BestCase == ret.value.results[2]

WorstCase == ret.value.results[3]

OptimismWeighted == ret.value.results[4]

Savage == ret.value.results[5]

LeastOf(S) == CHOOSE x \in S : \A y \in S : ~Less(y, x)

GreatestOf(S) == CHOOSE x \in S : \A y \in S : ~Less(x, y)

RowCells(i) == { matrix.values[i][j] : j \in 1..nStates }

ColumnCells(j) == { matrix.values[i][j] : i \in 1..nAlts }

rowMin(i) == LeastOf(RowCells(i))

rowMax(i) == GreatestOf(RowCells(i))

\* the result r picks the alternative of the greatest score
PicksMaximum(r) ==
    /\ r.optimalIndex \in 0..(nAlts - 1)
    /\ \A i \in 1..nAlts : ~Less(r.values[r.optimalIndex + 1], r.values[i])

\* the result r picks the alternative of the least score
PicksMinimum(r) ==
    /\ r.optimalIndex \in 0..(nAlts - 1)
    /\ \A i \in 1..nAlts : ~Less(r.values[i], r.values[r.optimalIndex + 1])

PicksByOrientation(r) == IF matrix.isCost THEN PicksMinimum(r) ELSE PicksMaximum(r)

ValidCall == Returned /\ ValidShape(matrix) /\ ValidAlpha(alpha)

---------------------------------------------------------------------------
\* C1: for every valid matrix and every cell [i][j], the ideal of column j is
\* the column maximum when isCost = false and the column minimum when
\* isCost = true, and regret[i][j] = ideal[j] - values[i][j] for profit and
\* values[i][j] - ideal[j] for cost.  (As stated; the copies of
\* calculateRegretMatrix that do not read isCost violate it.)
C1_RegretFollowsOrientation ==
    (Returned /\ ValidShape(matrix)) =>
        \A i \in 1..nAlts, j \in 1..nStates :
            ret.value.regretMatrix[i][j] =
                IF matrix.isCost
                THEN Sub(matrix.values[i][j], LeastOf(ColumnCells(j)))
                ELSE Sub(GreatestOf(ColumnCells(j)), matrix.values[i][j])

\* C2: for every valid matrix, the BestCase score of an alternative is its
\* row maximum when isCost = false and its row minimum when isCost = true, and
\* the optimal alternative has the maximum score for profit and the minimum
\* score for cost.  (As stated; calculateMaximax of utils/decisionCriteria
\* violates it.)
C2_BestCaseFollowsOrientation ==
    (Returned /\ ValidShape(matrix)) =>
        /\ \A i \in 1..nAlts :
            BestCase.values[i] = IF matrix.isCost THEN rowMin(i) ELSE rowMax(i)
        /\ PicksByOrientation(BestCase)

\* C3: for every valid matrix, the WorstCase score of an alternative is its
\* row minimum when isCost = false and its row maximum when isCost = true, and
\* the optimal alternative has the maximum score for profit and the minimum
\* score for cost.  (As stated; calculateMaximin of utils/decisionCriteria
\* violates it.)
C3_WorstCaseFollowsOrientation ==
    (Returned /\ ValidShape(matrix)) =>
        /\ \A i \in 1..nAlts :
            WorstCase.values[i] = IF matrix.isCost THEN rowMax(i) ELSE rowMin(i)
        /\ PicksByOrientation(WorstCase)

\* C4: for every valid matrix and every alpha in [0,1], the OptimismWeighted
\* score is alpha*rowMax + (1-alpha)*rowMin when isCost = false and
\* alpha*rowMin + (1-alpha)*rowMax when isCost = true, and the optimal
\* alternative has the maximum score for profit and the minimum score for
\* cost.  (As stated; the copies of calculateHurwicz that do not read isCost
\* violate it.)
C4_HurwiczFollowsOrientation ==
    ValidCall =>
        /\ \A i \in 1..nAlts :
            OptimismWeighted.values[i] =
                IF matrix.isCost
                THEN Add(Mul(alpha, rowMin(i)), Mul(Sub(Num(1), alpha), rowMax(i)))
                ELSE Add(Mul(alpha, rowMax(i)), Mul(Sub(Num(1), alpha), rowMin(i)))
        /\ PicksByOrientation(OptimismWeighted)

\* C5: for every valid matrix, the EqualLikelihood score of an alternative is
\* the arithmetic mean of its row, the same for both orientations, and the
\* optimal alternative has the highest score when isCost = false and the
\* lowest when isCost = true.  (As stated; the copies of calculateLaplace that
\* do not read isCost violate it.)
C5_LaplaceFollowsOrientation ==
    (Returned /\ ValidShape(matrix)) =>
        /\ \A i \in 1..nAlts :
            Laplace.values[i] = Div(rowSum(matrix.values[i]), nStates)
        /\ PicksByOrientation(Laplace)

\* C6: for every valid matrix of either orientation, the Savage score of an
\* alternative is the maximum of its row of the regret matrix that
\* calculateRegretMatrix produced, and the optimal alternative is the one of
\* the smallest such maximum, whatever isCost is.
C6_SavageMinimisesMaxRegret ==
    (Returned /\ ValidShape(matrix)) =>
        /\ Len(Savage.values) = nAlts
        /\ \A i \in 1..nAlts :
            Savage.values[i] =
                GreatestOf({ ret.value.regretMatrix[i][j] : j \in 1..nStates })
        /\ PicksMinimum(Savage)

\* a cost matrix whose regret maxima differ and whose first alternative is
\* not the one Savage picks
C6_Witness ==
    /\ Returned /\ ValidShape(matrix)
    /\ matrix.isCost
    /\ nStates >= 2
    /\ Savage.optimalIndex >= 1
    /\ \E i \in 1..nAlts : Less(Savage.optimalValue, Savage.values[i])

\* the alternatives whose score is the optimal score of the result r
Tied(r) == { i \in 1..nAlts : r.values[i] = r.optimalValue }

\* C7: tie-break.  For every valid matrix, either orientation, every alpha in
\* [0,1] and each of the five rules, optimalIndex is the lowest index among
\* the alternatives that share the optimal score (the score optimalValue of
\* the alternative reported as optimal).
C7_TieBreakLowestIndex ==
    ValidCall =>
        \A k \in 1..5 :
            LET r == ret.value.results[k]
            IN  /\ r.optimalIndex + 1 \in Tied(r)
                /\ \A i \in Tied(r) : r.optimalIndex + 1 <= i

\* two alternatives that are not the first share the optimal score of a rule
C7_Witness ==
    /\ ValidCall
    /\ \E k \in 1..5 :
        LET r == ret.value.results[k]
        IN  /\ r.optimalIndex = 1
            /\ Cardinality(Tied(r)) >= 2

\* C8: for every valid matrix, every alpha in [0,1] and each of the five
\* results of calculateAllCriteria: 0 <= optimalIndex < len(alternatives),
\* values has one entry per alternative, and optimalValue = values[optimalIndex].
C8_OptimalIndexInRange ==
    ValidCall =>
        /\ Len(ret.value.results) = 5
        /\ \A k \in 1..5 :
            LET r == ret.value.results[k]
            IN  /\ r.optimalIndex \in 0..(nAlts - 1)
                /\ Len(r.values) = nAlts
                /\ r.optimalValue = r.values[r.optimalIndex + 1]

\* a call on three alternatives where a rule picks the last one
C8_Witness ==
    /\ ValidCall
    /\ nAlts = 3
    /\ \E k \in 1..5 : ret.value.results[k].optimalIndex = 2

\* C9: calculateAllCriteria called with a matrix whose alternatives or states
\* list is empty, or whose values grid does not have exactly len(alternatives)
\* rows of exactly len(states) entries, fails with a ShapeError and returns no
\* DecisionResults.  (As stated; no copy validates the matrix.)
C9_MalformedMatrixFails ==
    (Returned /\ ~ValidShape(matrix)) => ret.outcome = "ShapeError"

\* C10: calculateAllCriteria called with alpha < 0 or alpha > 1 fails with a
\* RangeError; it neither clamps alpha nor returns a DecisionResults computed
\* with the out-of-range alpha.  (As stated; no copy validates alpha.)
C10_AlphaOutOfRangeFails ==
    (Returned /\ ValidShape(matrix) /\ ~ValidAlpha(alpha)) =>
        ret.outcome = "RangeError"

\* C11: for every valid matrix of either orientation, the scores of
\* calculateHurwicz at alpha = 1 are the scores of calculateMaximax and at
\* alpha = 0 the scores of calculateMaximin, on the same matrix.  (As stated;
\* the copy whose calculateMaximax and calculateMaximin read isCost while its
\* calculateHurwicz does not violates it.)
C11_HurwiczEndpoints ==
    (Returned /\ ValidShape(matrix)) =>
        /\ alpha = Num(1) => OptimismWeighted.values = BestCase.values
        /\ alpha = Num(0) => OptimismWeighted.values = WorstCase.values

\* the copy of src/src/utils/decisionCriteria.ts was the one called
UtilsCopy == ret.module = "utils/decisionCriteria"

\* C12 (as stated): for every valid matrix and every alternative i, in either
\* orientation, the WorstCase score of i is less than or equal to the BestCase
\* score of i.
C12_WorstNeverExceedsBest ==
    (Returned /\ ValidShape(matrix)) =>
        \A i \in 1..nAlts : ~Less(BestCase.values[i], WorstCase.values[i])

\* C12 (amended): WorstCase[i] <= BestCase[i] for every profit matrix, and
\* for every matrix in the copy that never reads isCost; for a cost matrix in
\* the copies whose calculateMaximin and calculateMaximax read isCost the
\* order is the reverse, BestCase[i] (row minimum) <= WorstCase[i] (row
\* maximum).
C12_WorstBestOrderedByOrientation ==
    (Returned /\ ValidShape(matrix)) =>
        \A i \in 1..nAlts :
            IF matrix.isCost /\ ~UtilsCopy
            THEN /\ BestCase.values[i] = rowMin(i)
                 /\ WorstCase.values[i] = rowMax(i)
                 /\ ~Less(WorstCase.values[i], BestCase.values[i])
            ELSE /\ WorstCase.values[i] = rowMin(i)
                 /\ BestCase.values[i] = rowMax(i)
                 /\ ~Less(BestCase.values[i], WorstCase.values[i])

\* a cost matrix for which a copy reading isCost returns a WorstCase score
\* above the BestCase score of the same alternative
C12_Witness ==
    /\ Returned /\ ValidShape(matrix)
    /\ matrix.isCost /\ ret.module = "part_002"
    /\ \E i \in 1..nAlts : Less(BestCase.values[i], WorstCase.values[i])

\* the alternatives whose payoff is the ideal of column j: the column
\* maximum for profit, the column minimum for cost
IdealAlternatives(j) ==
    { i \in 1..nAlts :
        matrix.values[i][j] = IF matrix.isCost THEN LeastOf(ColumnCells(j))
                                               ELSE GreatestOf(ColumnCells(j)) }

\* C13: for every valid matrix of either orientation, every entry of the
\* regret matrix is >= 0, and in every column j the alternative whose payoff
\* is the ideal of that state (column maximum for profit, column minimum for
\* cost) has regret exactly 0.  (As stated; the copies of
\* calculateRegretMatrix that do not read isCost violate it.)
C13_RegretNonNegativeZeroAtIdeal ==
    (Returned /\ ValidShape(matrix)) =>
        /\ \A i \in 1..nAlts, j \in 1..nStates :
                ~Less(ret.value.regretMatrix[i][j], Num(0))
        /\ \A j \in 1..nStates : \A i \in IdealAlternatives(j) :
                ret.value.regretMatrix[i][j] = Num(0)

\* the rule a CriterionResult is of, read from the head of its name
RuleOf(r) ==
    CASE r.name[1] = "Laplace" -> "EqualLikelihood"
      [] r.name[1] \in {"Optimista", "Optimista ", "Optimista (Maximax)"} -> "BestCase"
      [] r.name[1] \in {"Pesimista (Wald)", "Pesimista ", "Pesimista (Maximin)"} -> "WorstCase"
      [] r.name[1] = "Hurwicz (alpha=" -> "OptimismWeighted"
      [] r.name[1] = "Savage" -> "MinimaxRegret"
      [] OTHER -> "none"

\* C14: for every valid matrix and alpha, the DecisionResults of
\* calculateAllCriteria has exactly 5 CriterionResult entries in the order
\* EqualLikelihood, BestCase, WorstCase, OptimismWeighted, MinimaxRegret, and
\* a regretMatrix of exactly len(alternatives) rows of len(states) entries.
C14_FiveResultsFixedOrder ==
    (Returned /\ ValidShape(matrix)) =>
        /\ Len(ret.value.results) = 5
        /\ [k \in 1..5 |-> RuleOf(ret.value.results[k])] =
                <<"EqualLikelihood", "BestCase", "WorstCase",
                  "OptimismWeighted", "MinimaxRegret">>
        /\ Len(ret.value.regretMatrix) = nAlts
        /\ \A i \in 1..nAlts : Len(ret.value.regretMatrix[i]) = nStates

\* a call on a matrix that is not square returned its bundle
C14_Witness ==
    /\ Returned /\ ValidShape(matrix)
    /\ nAlts = 3 /\ nStates = 2
    /\ Len(ret.value.regretMatrix) = 3

\* C15: calculateAllCriteria, and with it the five evaluators and
\* calculateRegretMatrix it calls, never mutate the matrix passed in: after a
\* call alternatives, states, every cell of values and isCost are what they
\* were before the call.
C15_NoMutation == [][calls' # calls => matrix' = matrix]_vars

\* a call returned a regret matrix that is not the grid of the matrix
C15_Witness ==
    /\ Returned /\ ValidShape(matrix)
    /\ nAlts >= 2 /\ nStates >= 2
    /\ ret.value.regretMatrix # matrix.values
    /\ ret.value.matrix = matrix

C17_ProfitScenario ==
    (Returned /\ matrix = ScenarioMatrix(FALSE) /\ alpha = Rat(1, 2)) =>
        /\ Laplace.values = <<Rat(23, 4), Rat(9, 2), Num(6)>>
        /\ Laplace.optimalIndex = 2
        /\ BestCase.values = <<Num(10), Num(6), Num(9)>>
        /\ BestCase.optimalIndex = 0
        /\ WorstCase.values = <<Num(2), Num(3), Num(4)>>
        /\ WorstCase.optimalIndex = 2
        /\ OptimismWeighted.values = <<Num(6), Rat(9, 2), Rat(13, 2)>>
        /\ OptimismWeighted.optimalIndex = 2
        /\ ret.value.regretMatrix =
                << <<Num(6), Num(0), Num(4), Num(0)>>,
                   <<Num(4), Num(4), Num(0), Num(7)>>,
                   <<Num(0), Num(2), Num(2), Num(5)>> >>
        /\ Savage.values = <<Num(6), Num(7), Num(5)>>
        /\ Savage.optimalIndex = 2

\* the copy the calculator imports returned the bundle of the profit scenario
C17_Witness ==
    /\ Returned /\ UtilsCopy
    /\ matrix = ScenarioMatrix(FALSE) /\ alpha = Rat(1, 2)
    /\ Len(Laplace.values) = 3

\* C18: cost scenario.  For the matrix of rows [3,8,2,10], [5,4,6,3],
\* [9,6,4,5] and isCost = true, the BestCase (calculateMaximax) scores are
\* the row minima 3, 3, 4 with optimal index 0, and the WorstCase
\* (calculateMaximin) scores are the row maxima 10, 6, 9 with optimal index 1.
\* (As stated; calculateMaximax and calculateMaximin of utils/decisionCriteria
\* do not read isCost, and the row minima of the grid are 2, 3, 4.)
C18_CostScenario ==
    (Returned /\ matrix = ScenarioMatrix(TRUE)) =>
        /\ BestCase.values = <<Num(3), Num(3), Num(4)>>
        /\ BestCase.optimalIndex = 0
        /\ WorstCase.values = <<Num(10), Num(6), Num(9)>>
        /\ WorstCase.optimalIndex = 1

\* C19: in the MatrixInput editor, starting from the default 2x2 matrix,
\* after any sequence of addAlternative, addState, removeAlternative,
\* removeState, updateAlternativeName, updateStateName, updateValue and
\* toggleCostProfit, all alternative ids are pairwise distinct and all state
\* ids are pairwise distinct.  (As stated; the id of a new entry is made of
\* the length of the list, which a removal lowers.)
C19_IdsUnique ==
    /\ \A i, j \in 1..Len(matrix.alternatives) :
            i # j => matrix.alternatives[i].id # matrix.alternatives[j].id
    /\ \A i, j \in 1..Len(matrix.states) :
            i # j => matrix.states[i].id # matrix.states[j].id

\* C20: in the MatrixInput editor, starting from the default 2x2 matrix,
\* after any sequence of add/remove alternative, add/remove state, rename,
\* updateValue and toggleCostProfit, the matrix satisfies the PayoffMatrix
\* invariants: alternatives and states non-empty, values of exactly
\* len(alternatives) rows, every row of exactly len(states) entries.
C20_EditorKeepsShape == ValidShape(matrix)

\* a matrix that was grown in both directions, shrunk again, edited and
\* toggled: two alternatives of which the first was not the first at the
\* start, three states, a cell typed in, cost orientation
C20_Witness ==
    /\ Len(matrix.alternatives) = 2 /\ Len(matrix.states) = 3
    /\ matrix.alternatives[1].id = <<"a", 2>>
    /\ matrix.values[2][3] = Num(2)
    /\ matrix.isCost

\* the results view is what the page renders
ResultsShown == page.showResults /\ page.results # <<>>

\* C21: in DecisionCalculator, in every reachable state where the results
\* view is shown, the displayed results are those of calculateAllCriteria
\* applied to the current matrix and the alpha the slider currently holds; a
\* change of alpha while results are shown is followed by results recomputed
\* with the new alpha.  (As stated; setAlpha changes alpha alone and nothing
\* recomputes results.)
C21_ShownResultsCurrent ==
    ResultsShown => page.results[1] = calculateAllCriteria(page.matrix[1], alpha)

\* C22: in DecisionCalculator, Calculate evaluates the matrix the MatrixInput
\* editor currently holds: after any sequence of editor operations, each
\* followed by its onMatrixChange effect, and then Calculate, results.matrix
\* is the editor's latest matrix; Calculate while the page's matrix is still
\* null computes nothing and leaves the results view hidden; and Calculate
\* followed by Back shows the editor with that same matrix, unchanged.
C22_CalculateEvaluatesEditorMatrix ==
    [][ /\ (EditorShown /\ ~EditorShown' /\ page.matrix = <<matrix>>) =>
                /\ page'.results[1].matrix = matrix
                /\ page'.results[1] = calculateAllCriteria(matrix, alpha)
        /\ (page.matrix = <<>> /\ page'.events # page.events) =>
                /\ page'.results = <<>>
                /\ ~page'.showResults
        /\ (~EditorShown /\ EditorShown') =>
                /\ matrix' = page.results[1].matrix
                /\ page'.matrix = <<matrix'>>
                /\ page'.results = page.results
      ]_vars

\* the editor is shown again after Calculate and Back, holding the edited
\* matrix that was evaluated
C22_Witness ==
    /\ EditorShown
    /\ page.results # <<>>
    /\ matrix # DefaultMatrix
    /\ page.results[1].matrix = matrix
    /\ page.matrix = <<matrix>>

\* arr without its entry at the 0-based index, entry by entry
Without(arr, index) ==
    [j \in 1..(Len(arr) - 1) |-> IF j <= index THEN arr[j] ELSE arr[j + 1]]

\* the matrix the editor holds after removing the alternative at index
AfterRemoveAlternative(index) ==
    IF Len(matrix.alternatives) <= 2
    THEN matrix
    ELSE [alternatives |-> Without(matrix.alternatives, index),
          states       |-> matrix.states,
          values       |-> Without(matrix.values, index),
          isCost       |-> matrix.isCost]

\* the matrix the editor holds after removing the state at index
AfterRemoveState(index) ==
    IF Len(matrix.states) <= 2
    THEN matrix
    ELSE [alternatives |-> matrix.alternatives,
          states       |-> Without(matrix.states, index),
          values       |-> [i \in 1..Len(matrix.values) |->
                               Without(matrix.values[i], index)],
          isCost       |-> matrix.isCost]

\* C23: in MatrixInput, removeAlternative leaves the matrix unchanged when it
\* has 2 or fewer alternatives and removeState leaves it unchanged when it has
\* 2 or fewer states, so every matrix reachable from the default 2x2 matrix
\* has at least 2 alternatives and at least 2 states; otherwise the operation
\* removes exactly the alternative and its row of values, or the state and its
\* column in every row, at the given index, and every other cell, name and
\* isCost stays as it was.
C23_RemoveGuardedAndExact ==
    /\ [](Len(matrix.alternatives) >= 2 /\ Len(matrix.states) >= 2)
    /\ [][ /\ \A index \in 0..(Len(matrix.alternatives) - 1) :
                  removeAlternative(index) =>
                      matrix' = AfterRemoveAlternative(index)
           /\ \A index \in 0..(Len(matrix.states) - 1) :
                  removeState(index) => matrix' = AfterRemoveState(index)
         ]_vars

\* both removals have acted: the first of three alternatives and the first of
\* three states are gone, the rest kept their ids and a cell kept its value
C23_Witness ==
    /\ Len(matrix.alternatives) = 2 /\ Len(matrix.states) = 2
    /\ matrix.alternatives[1].id = <<"a", 2>>
    /\ matrix.alternatives[2].id = <<"a", 3>>
    /\ matrix.states[1].id = <<"s", 2>>
    /\ matrix.states[2].id = <<"s", 3>>
    /\ matrix.values[1][1] = Num(2)

\* C24: for every valid matrix and alpha, the regretMatrix field of the bundle
\* returned by calculateAllCriteria is the grid the Savage rule used: it has
\* one row per alternative and one cell per state, the Savage result's
\* values[i] is the maximum of row i of the returned regretMatrix for every
\* alternative i, and the Savage optimalValue is the minimum over those row
\* maxima.
C24_RegretMatrixIsSavageGrid ==
    ValidCall =>
        LET grid == ret.value.regretMatrix
        IN  /\ Len(grid) = nAlts
            /\ Len(Savage.values) = nAlts
            /\ \A i \in 1..nAlts :
                  /\ Len(grid[i]) = nStates
                  /\ \E j \in 1..nStates : Savage.values[i] = grid[i][j]
                  /\ \A j \in 1..nStates :
                        ~Less(Savage.values[i], grid[i][j])
            /\ \E i \in 1..nAlts : Savage.optimalValue = Savage.values[i]
            /\ \A i \in 1..nAlts :
                  ~Less(Savage.values[i], Savage.optimalValue)

\* a profit matrix whose regret grid has a row with unequal cells and whose
\* row maxima differ, so both the maximum and the minimum select
C24_Witness ==
    /\ ValidCall
    /\ ~matrix.isCost
    /\ nAlts >= 2 /\ nStates >= 2
    /\ \E i \in 1..nAlts : \E j, k \in 1..nStates :
          Less(ret.value.regretMatrix[i][j], ret.value.regretMatrix[i][k])
    /\ \E i \in 1..nAlts : Less(Savage.optimalValue, Savage.values[i])

=============================================================================
